---- MODULE Spec2Model ----
(***************************************************************************)
(* A model of the notebook "Anna KaRNNa.ipynb": the vocabulary cell, the   *)
(* batcher (split_data, get_batch), the training loop (cell 14), and the   *)
(* sampler (pick_top_n, sample).  The tensor framework is external: a      *)
(* hidden state is modelled by the windows it has consumed since the last  *)
(* zero state and by its layout (nested per-layer tuple, or one packed     *)
(* tensor), the model parameters by the number of optimizer steps applied. *)
(*                                                                         *)
(* Python sequences are 0-based and half-open; TLA+ sequences are 1-based. *)
(* A 2-D array is a sequence of rows.                                      *)
(***************************************************************************)
EXTENDS Integers, Sequences, FiniteSets, TLC

VARIABLES
    pc,             \* position of the program in the cell / function being run
    text,           \* cell 2: the raw corpus, a sequence of characters
    vocab,          \* cell 2: set(text), held as its iteration order
    vocab_to_int,   \* cell 2
    int_to_vocab,   \* cell 2
    chars,          \* cell 2: the encoded corpus
    batch_size, num_steps, split_frac,      \* arguments of split_data
    train_x, train_y, val_x, val_y,         \* what split_data returned
    preds,          \* the probability vector last fetched, as integer weights
    top_n,          \* pick_top_n: its top_n argument
    p,              \* pick_top_n: the local p after line 572
    c,              \* the id pick_top_n returned last (-1: none yet)
    fetched_layout, \* the layout in which a fetch of final_state comes back
    epochs, save_every_n,           \* cell 14: hyperparameters
    n_batches, iterations,          \* cell 14, lines 491-492
    e, b, iteration,                \* cell 14: loop variables
    new_state,      \* the hidden state the loop carries (cell 14, sample)
    feed,           \* the feed dict of the last sess.run that fed one
    params,         \* the model parameters: optimizer steps applied so far
    val_b,          \* cell 14: validation windows the inner loop has taken
    val_loss,       \* cell 14: the list val_loss
    checkpoints,    \* what the Saver keeps on disk, oldest first
    prime_arg, n_samples,           \* sample: the caller's arguments
    prime, samples, x, i, prime_k,  \* sample: locals
    arrs,           \* get_batch: its argument, a list of 2-D arrays
    yielded,        \* get_batch: the windows the running call has yielded
    runs            \* get_batch: what each finished call yielded, in call order

vocabVars == <<text, vocab, vocab_to_int, int_to_vocab>>
batchVars == <<batch_size, num_steps, split_frac, train_x, train_y, val_x, val_y>>
pickVars == <<preds, top_n, p, c>>
hyperVars == <<fetched_layout, epochs, save_every_n, n_batches, iterations>>
loopVars == <<e, b, iteration, val_b, val_loss>>
modelVars == <<new_state, feed, params, checkpoints>>
trainVars == <<hyperVars, loopVars, modelVars>>
sampleVars == <<prime_arg, n_samples, prime, samples, x, i, prime_k>>
genVars == <<arrs, yielded, runs>>
vars == <<pc, vocabVars, chars, batchVars, pickVars, trainVars, sampleVars, genVars>>

-----------------------------------------------------------------------------
(* Bounds of the model *)

MaxText == 4        \* longest raw text of the vocabulary specification
MaxLen == 13        \* longest encoded corpus of the batcher specification
MaxBatch == 3       \* largest batch_size
MaxSteps == 3       \* largest num_steps
MaxWeight == 4      \* largest weight of one entry of a probability vector
MaxVocab == 4       \* largest vocabulary of the pick_top_n specification
MaxTrainLen == 23   \* longest encoded corpus of the training specification
MaxTrainBatch == 2  \* largest batch_size of the training specification
MaxTrainSteps == 2  \* largest num_steps of the training specification
MaxEpochs == 2      \* largest epochs
MaxSaveEvery == 3   \* largest save_every_n
MaxSamples == 2     \* largest n_samples
MaxRows == 2        \* most rows of an array given to get_batch
MaxCols == 5        \* most columns of an array given to get_batch
MaxWindow == 3      \* largest num_steps given to get_batch
MaxCalls == 2       \* calls of get_batch on the same arrays

-----------------------------------------------------------------------------
(* Python helpers *)

Min(m, n) == IF m < n THEN m ELSE n
Max(m, n) == IF m > n THEN m ELSE n

\* s[from:to] of Python for 0 <= from, 0 <= to: indices past the end are clamped
Slice(s, from, to) == SubSeq(s, from + 1, Min(to, Len(s)))

\* arr[:, from:to] of numpy on a 2-D array
ColSlice(arr, from, to) == [r \in 1..Len(arr) |-> Slice(arr[r], from, to)]

\* arr.shape[1]; an array of no rows has no columns to speak of
Cols(arr) == IF Len(arr) = 0 THEN 0 ELSE Len(arr[1])

Range(s) == {s[k] : k \in 1..Len(s)}

\* the orders in which a set can be iterated
Orders(S) == {o \in [1..Cardinality(S) -> S] : Range(o) = S}

-----------------------------------------------------------------------------
(* Cell 2: vocabulary *)

Alphabet == {"a", "b", "c"}

Texts == UNION {[1..n -> Alphabet] : n \in 0..MaxText}

\* the parts of the state a specification does not run
IdleVocab ==
    text = <<>> /\ vocab = <<>> /\ vocab_to_int = <<>> /\ int_to_vocab = <<>>
IdleBatcher ==
    /\ batch_size = 0 /\ num_steps = 0 /\ split_frac = <<0, 1>>
    /\ train_x = <<>> /\ train_y = <<>> /\ val_x = <<>> /\ val_y = <<>>
IdlePick ==
    preds = <<>> /\ top_n = 0 /\ p = <<>> /\ c = -1
IdleTrainer ==
    /\ fetched_layout = "nested" /\ epochs = 0 /\ save_every_n = 0
    /\ n_batches = 0 /\ iterations = 0
    /\ e = 0 /\ b = 0 /\ iteration = 0 /\ val_b = 0 /\ val_loss = <<>>
    /\ new_state = <<>> /\ feed = [op |-> "none"] /\ params = 0 /\ checkpoints = <<>>
IdleSampler ==
    /\ prime_arg = <<>> /\ n_samples = 0
    /\ prime = <<>> /\ samples = <<>> /\ x = -1 /\ i = 0 /\ prime_k = 0
IdleGetBatch ==
    arrs = <<>> /\ yielded = <<>> /\ runs = <<>>

\* {c: i for i, c in enumerate(vocab)}
\* (VocabToIntOffByOne is the faulty variant that counts from 1)
VocabToIntOffByOne(order) == [ch \in Range(order) |->
                                 CHOOSE k \in 1..Len(order) : order[k] = ch]
VocabToInt(order) == [ch \in Range(order) |->
                         (CHOOSE k \in 1..Len(order) : order[k] = ch) - 1]

\* dict(enumerate(vocab))
IntToVocab(order) == [k \in 0..(Len(order) - 1) |-> order[k + 1]]

\* np.array([vocab_to_int[c] for c in text])
Encode(t, v2i) == [k \in 1..Len(t) |-> v2i[t[k]]]

InitVocab ==
    /\ pc = "cell2"
    /\ IdleGetBatch
    /\ text \in Texts
    /\ vocab = <<>> /\ vocab_to_int = <<>> /\ int_to_vocab = <<>>
    /\ chars = <<>>
    /\ IdleBatcher /\ IdlePick /\ IdleTrainer /\ IdleSampler

\* The set is iterated twice (lines 59 and 60); an unmodified set iterates in
\* the same order each time, and that order is not otherwise determined.
BuildVocab ==
    /\ pc = "cell2"
    /\ \E order \in Orders(Range(text)) :
          /\ vocab' = order
          /\ vocab_to_int' = VocabToInt(order)
          /\ int_to_vocab' = IntToVocab(order)
          /\ chars' = Encode(text, VocabToInt(order))
    /\ pc' = "encoded"
    /\ UNCHANGED <<genVars, text, batchVars, pickVars, trainVars, sampleVars>>

NextVocab == BuildVocab

SpecVocab == InitVocab /\ [][NextVocab]_vars

\* C10: once the vocabulary cell has run, vocab_to_int and int_to_vocab are
\* inverse bijections between the distinct characters of the corpus and the
\* ids 0..vocab_size-1: int_to_vocab[vocab_to_int[c]] = c for every character
\* of the corpus and vocab_to_int[int_to_vocab[k]] = k for every id.
C10_VocabBijection ==
    pc = "encoded" =>
        /\ DOMAIN vocab_to_int = Range(text)
        /\ DOMAIN int_to_vocab = 0..(Cardinality(Range(text)) - 1)
        /\ \A k \in 1..Len(text) :
              /\ vocab_to_int[text[k]] \in DOMAIN int_to_vocab
              /\ int_to_vocab[vocab_to_int[text[k]]] = text[k]
        /\ \A k \in DOMAIN int_to_vocab :
              /\ int_to_vocab[k] \in DOMAIN vocab_to_int
              /\ vocab_to_int[int_to_vocab[k]] = k

\* a corpus of three distinct characters, one of them repeated, encoded
C10_Witness ==
    /\ pc = "encoded"
    /\ Cardinality(Range(text)) = 3
    /\ Len(text) = 4
    /\ Len(chars) = 4

-----------------------------------------------------------------------------
(* Cell 5: split_data *)

\* encoded corpora: "abcabc..." under the enumeration a, b, c, and a corpus
\* in which no character repeats
Cyclic(n) == [k \in 1..n |-> (k - 1) % 3]
Distinct(n) == [k \in 1..n |-> k - 1]
Corpora == {Cyclic(n) : n \in 0..MaxLen} \cup {Distinct(n) : n \in 0..MaxLen}

\* split_frac as the fraction <<numerator, denominator>>; 9/10 is the default
DefaultSplitFrac == <<9, 10>>
SplitFracs == {<<1, 2>>, DefaultSplitFrac, <<1, 1>>}

\* line 158: int(len(chars) / slice_size)
NBatches(cs, slice_size) == Len(cs) \div slice_size

\* line 161: chars[: n_batches*slice_size]
InputStream(cs, n, slice_size) == Slice(cs, 0, n * slice_size)

\* line 162: chars[1: n_batches*slice_size + 1]
\* (TargetStreamUnshifted is the faulty variant without the shift)
TargetStreamUnshifted(cs, n, slice_size) == Slice(cs, 0, n * slice_size)
TargetStream(cs, n, slice_size) == Slice(cs, 1, n * slice_size + 1)

\* np.split(s, k) raises ValueError unless k divides len(s)
NpSplitRaises(s, k) == Len(s) % k # 0

\* np.stack(np.split(s, k)): row r is the r-th of k equal contiguous parts
\* (NpSplitStackStrided is the faulty variant that deals the elements out to
\* the rows in turn)
NpSplitStackStrided(s, k) ==
    [r \in 1..k |-> [j \in 1..(Len(s) \div k) |-> s[(j - 1) * k + r]]]
NpSplitStack(s, k) ==
    [r \in 1..k |-> Slice(s, (r - 1) * (Len(s) \div k), r * (Len(s) \div k))]

\* line 171: int(n_batches*split_frac)
SplitIdx(n, frac) == (n * frac[1]) \div frac[2]

\* lines 157-175; [raised |-> TRUE] when np.split raises
SplitData(cs, bs, ns, frac) ==
    LET slice_size == bs * ns
        n == NBatches(cs, slice_size)
        xs == InputStream(cs, n, slice_size)
        ys == TargetStream(cs, n, slice_size)
    IN  IF NpSplitRaises(xs, bs) \/ NpSplitRaises(ys, bs)
        THEN [raised |-> TRUE]
        ELSE LET xm == NpSplitStack(xs, bs)
                 ym == NpSplitStack(ys, bs)
                 cut == SplitIdx(n, frac) * ns
             IN  [raised |-> FALSE,
                  train_x |-> ColSlice(xm, 0, cut),
                  train_y |-> ColSlice(ym, 0, cut),
                  val_x |-> ColSlice(xm, cut, Cols(xm)),
                  val_y |-> ColSlice(ym, cut, Cols(ym))]

InitBatcher ==
    /\ pc = "cell6"
    /\ IdleGetBatch
    /\ IdleVocab /\ IdlePick /\ IdleTrainer /\ IdleSampler
    /\ chars \in Corpora
    /\ batch_size \in 1..MaxBatch
    /\ num_steps \in 1..MaxSteps
    /\ split_frac \in SplitFracs
    /\ train_x = <<>> /\ train_y = <<>> /\ val_x = <<>> /\ val_y = <<>>

SplitDataReturns ==
    /\ pc = "cell6"
    /\ LET r == SplitData(chars, batch_size, num_steps, split_frac)
       IN  /\ ~r.raised
           /\ train_x' = r.train_x /\ train_y' = r.train_y
           /\ val_x' = r.val_x /\ val_y' = r.val_y
    /\ pc' = "split"
    /\ UNCHANGED <<genVars, vocabVars, chars, batch_size, num_steps, split_frac, pickVars,
                   trainVars, sampleVars>>

SplitDataRaises ==
    /\ pc = "cell6"
    /\ SplitData(chars, batch_size, num_steps, split_frac).raised
    /\ pc' = "ValueError"
    /\ UNCHANGED <<genVars, vocabVars, chars, batchVars, pickVars, trainVars, sampleVars>>

NextBatcher == SplitDataReturns \/ SplitDataRaises

SpecBatcher == InitBatcher /\ [][NextBatcher]_vars

\* the full tensors: training columns followed by validation columns
FullX == [r \in 1..Len(train_x) |-> train_x[r] \o val_x[r]]
FullY == [r \in 1..Len(train_y) |-> train_y[r] \o val_y[r]]

C3_SplitShapes ==
    (pc # "cell6" /\ Len(chars) >= batch_size * num_steps + 1) =>
        LET n == Len(chars) \div (batch_size * num_steps)
        IN  /\ pc = "split"
            /\ Len(train_x) = batch_size /\ Len(train_y) = batch_size
            /\ Len(val_x) = batch_size /\ Len(val_y) = batch_size
            /\ Cols(train_x) + Cols(val_x) = n * num_steps
            /\ Cols(train_y) + Cols(val_y) = n * num_steps

\* the row-partitioned tensors before the cut: row r, column j of the inputs is
\* corpus position (r-1)*L + j, and of the targets the position after it
\* (-1, no character id, where the corpus has ended)
RowPartition(cs, rows, L, shift) ==
    [r \in 1..rows |-> [j \in 1..L |->
        IF (r - 1) * L + j + shift <= Len(cs)
        THEN cs[(r - 1) * L + j + shift] ELSE -1]]

\* C4: split_data returns, as training tensors, columns [0, split) and, as
\* validation tensors, columns [split, n_batches*num_steps) of the
\* row-partitioned inputs and targets, split = floor(n_batches*split_frac) *
\* num_steps; on "abcabcabcabc" with batch_size 2, num_steps 3 and split_frac
\* 1/2 it returns train_x and val_x of shape (2, 3).
C4_SplitColumns ==
    (pc # "cell6" /\ Len(chars) >= batch_size * num_steps + 1) =>
        LET n == Len(chars) \div (batch_size * num_steps)
            L == n * num_steps
            split == ((n * split_frac[1]) \div split_frac[2]) * num_steps
            X == RowPartition(chars, batch_size, L, 0)
            Y == RowPartition(chars, batch_size, L, 1)
        IN  /\ pc = "split"
            /\ train_x = ColSlice(X, 0, split) /\ val_x = ColSlice(X, split, L)
            /\ train_y = ColSlice(Y, 0, split) /\ val_y = ColSlice(Y, split, L)

-----------------------------------------------------------------------------
(* pick_top_n *)

\* probability vectors over a vocabulary of n ids, as integer weights: entry k
\* (1-based) is the weight of id k-1, its probability weight / sum of weights
ProbVectors(n) == {v \in [1..n -> 0..MaxWeight] : \E k \in 1..n : v[k] > 0}

RECURSIVE Perms(_)
Perms(S) == IF S = {} THEN {<<>>}
            ELSE UNION {{<<k>> \o o : o \in Perms(S \ {k})} : k \in S}

\* np.argsort(v): indices in ascending order of value; the order among equal
\* values is whatever the sort yields
ArgSorts(v) == {o \in Perms(1..Len(v)) :
                   \A k \in 1..(Len(o) - 1) : v[o[k]] <= v[o[k + 1]]}

\* s[:-k] of Python for k >= 0 (s[:-0] is s[:0], the empty sequence)
\* (AllButFirst is the faulty variant s[k:])
AllButFirst(s, k) == Slice(s, Min(k, Len(s)), Len(s))
AllButLast(s, k) == IF k = 0 THEN <<>> ELSE Slice(s, 0, Max(Len(s) - k, 0))

\* line 572: p[np.argsort(p)[:-top_n]] = 0, for the argsort result o
Truncate(v, o, k) ==
    [j \in 1..Len(v) |-> IF j \in Range(AllButLast(o, k)) THEN 0 ELSE v[j]]

\* lines 573-574: np.random.choice(vocab_size, 1, p=p/np.sum(p)) can return
\* exactly the ids of non-zero probability
Choices(v) == {j - 1 : j \in {k \in 1..Len(v) : v[k] > 0}}

\* lines 570-575: what one call pick_top_n(v, len(v), top_n=k) can leave in p
\* and return
PickResults(v, k) ==
    {[p |-> Truncate(v, o, k), c |-> id] :
        <<o, id>> \in {oc \in ArgSorts(v) \X (0..(Len(v) - 1)) :
                          oc[2] \in Choices(Truncate(v, oc[1], k))}}

InitPick ==
    /\ pc = "pick_top_n"
    /\ IdleGetBatch
    /\ IdleVocab /\ IdleBatcher /\ IdleTrainer /\ IdleSampler
    /\ chars = <<>>
    /\ \E n \in 1..MaxVocab : preds \in ProbVectors(n)
    /\ top_n \in 0..(MaxVocab + 1)
    /\ p = <<>>
    /\ c = -1

PickTopN ==
    /\ pc = "pick_top_n"
    /\ \E r \in PickResults(preds, top_n) : p' = r.p /\ c' = r.c
    /\ pc' = "picked"
    /\ UNCHANGED <<genVars, vocabVars, chars, batchVars, preds, top_n, trainVars, sampleVars>>

NextPick == PickTopN

SpecPick == InitPick /\ [][NextPick]_vars

\* C8: for top_n in [1, vocab_size] the id pick_top_n returns is one of the
\* top_n highest-probability entries (fewer than top_n entries are strictly
\* more probable) and is never an entry that was zeroed out; for the vector
\* [0.4, 0.3, 0.2, 0.1] and top_n = 2 it is id 0 or id 1; with top_n equal to
\* vocab_size no entry is zeroed.
C8_PickWithinTopN ==
    (pc = "picked" /\ top_n \in 1..Len(preds)) =>
        /\ c \in 0..(Len(preds) - 1)
        /\ Cardinality({k \in 1..Len(preds) : preds[k] > preds[c + 1]}) < top_n
        /\ Cardinality({k \in 1..Len(p) : p[k] = preds[k]}) >= top_n
        /\ p[c + 1] > 0
        /\ (preds = <<4, 3, 2, 1>> /\ top_n = 2) => c \in {0, 1}
        /\ top_n = Len(preds) => p = preds

\* a pick from [0.4, 0.3, 0.2, 0.1] with top_n = 2, ids 2 and 3 zeroed
C8_Witness ==
    /\ pc = "picked"
    /\ preds = <<4, 3, 2, 1>> /\ top_n = 2
    /\ p = <<4, 3, 0, 0>>
    /\ c = 1

-----------------------------------------------------------------------------
(* Cell 9: get_batch *)

\* lines 269-273: the windows get_batch yields, in order; window k (1-based)
\* is [a[:, (k-1)*num_steps : k*num_steps] for a in arrs]
\* (GetBatchStrideOne is the faulty variant that advances one column a window)
GetBatchStrideOne(ts, ns) ==
    [k \in 1..(Cols(ts[1]) \div ns) |->
        [a \in 1..Len(ts) |-> ColSlice(ts[a], k - 1, k - 1 + ns)]]
GetBatch(ts, ns) ==
    [k \in 1..(Cols(ts[1]) \div ns) |->
        [a \in 1..Len(ts) |-> ColSlice(ts[a], (k - 1) * ns, k * ns)]]

\* the arrays get_batch is called on: a rows x cols array whose entries are all
\* different, so that a window tells which columns it was cut from
Tensor(rows, cols, first) ==
    [r \in 1..rows |-> [j \in 1..cols |-> first + (r - 1) * cols + j]]

\* an [inputs, targets] list as cell 14 passes it: the same number of rows,
\* the targets with as many columns as the inputs or with one column less
\* (what split_data returns for batch_size 1 on a corpus it uses up)
InitGetBatch ==
    /\ pc = "get_batch"
    /\ IdleVocab /\ IdlePick /\ IdleTrainer /\ IdleSampler
    /\ chars = <<>>
    /\ batch_size = 0 /\ split_frac = <<0, 1>>
    /\ train_x = <<>> /\ train_y = <<>> /\ val_x = <<>> /\ val_y = <<>>
    /\ num_steps \in 1..MaxWindow
    /\ \E rows \in 1..MaxRows : \E cols \in 0..MaxCols :
       \E ycols \in {cols, Max(cols - 1, 0)} :
          arrs = <<Tensor(rows, cols, 0), Tensor(rows, ycols, 100)>>
    /\ yielded = <<>>
    /\ runs = <<>>

\* lines 269-270: a call starts; batch_size and slice_size come from the
\* shape of the first array, n_batches = int(slice_size / num_steps)
GetBatchCall ==
    /\ pc = "get_batch"
    /\ Len(runs) < MaxCalls
    /\ batch_size' = Len(arrs[1])
    /\ n_batches' = Cols(arrs[1]) \div num_steps
    /\ b' = 0
    /\ yielded' = <<>>
    /\ pc' = "gen_for_b"
    /\ UNCHANGED <<vocabVars, chars, num_steps, split_frac, train_x, train_y,
                   val_x, val_y, pickVars, fetched_layout, epochs, save_every_n,
                   iterations, e, iteration, val_b, val_loss, modelVars,
                   sampleVars, arrs, runs>>

\* lines 272-273: the next window is yielded
GetBatchYield ==
    /\ pc = "gen_for_b"
    /\ b < n_batches
    /\ yielded' = Append(yielded, GetBatch(arrs, num_steps)[b + 1])
    /\ b' = b + 1
    /\ UNCHANGED <<pc, vocabVars, chars, batchVars, pickVars, hyperVars, e,
                   iteration, val_b, val_loss, modelVars, sampleVars, arrs, runs>>

\* line 272: range(n_batches) is exhausted, the generator ends
GetBatchStop ==
    /\ pc = "gen_for_b"
    /\ b >= n_batches
    /\ runs' = Append(runs, yielded)
    /\ pc' = "get_batch"
    /\ UNCHANGED <<vocabVars, chars, batchVars, pickVars, trainVars, sampleVars,
                   arrs, yielded>>

NextGetBatch == GetBatchCall \/ GetBatchYield \/ GetBatchStop

SpecGetBatch == InitGetBatch /\ [][NextGetBatch]_vars

-----------------------------------------------------------------------------
(* Cell 10: the graph, as far as the loops see it *)

\* sess.run(model.initial_state): cell.zero_state, a nested per-layer tuple
ZeroState == [layout |-> "nested", seen |-> <<>>]

\* The value fetched for model.final_state after running the network from
\* state `prior` over `window`.  Line 318 wraps the nested state of static_rnn
\* in tf.identity; in the run recorded in the notebook (lines 457-458) the
\* fetched value is one packed array.  What a given build of the framework
\* returns is outside the repository: fetched_layout, fixed at construction.
FinalState(prior, window, layout) ==
    [layout |-> layout, seen |-> Append(prior.seen, window)]

Shape(arr) == <<Len(arr), Cols(arr)>>

\* sess.run raises ValueError on a feed whose inputs or targets do not have the
\* placeholder shape [batch_size, num_steps] (lines 296, 300), or whose
\* initial_state is not the nested structure of cell.zero_state (line 312; the
\* recorded error of lines 457-458 is this one)
FeedRejected(f, bs, ns) ==
    \/ Shape(f.inputs) # <<bs, ns>>
    \/ ("targets" \in DOMAIN f /\ Shape(f.targets) # <<bs, ns>>)
    \/ f.initial_state.layout # "nested"

\* model.cost for one window: it depends on the window, the state the window
\* started from and the parameters
Cost(window, prior, ps) == [window |-> window, prior |-> prior.seen, params |-> ps]

\* the fetch lists of the three kinds of sess.run: lines 505, 524, 602 and 613
TrainFetches == {"cost", "final_state", "optimizer"}
ValFetches == {"cost", "final_state"}
InferFetches == {"preds", "final_state"}

\* lines 337-340: the parameters (tf.trainable_variables) are assigned by the
\* optimizer node only, so one sess.run changes them iff it fetches that node
ParamsAfterAnyRun(fetches, ps) == ps + 1
ParamsAfterRun(fetches, ps) == IF "optimizer" \in fetches THEN ps + 1 ELSE ps

-----------------------------------------------------------------------------
(* Cell 14: training *)

MaxToKeep == 100

\* saver.save under tf.train.Saver(max_to_keep=100): the new checkpoint is
\* added and only the max_to_keep most recent are kept
SaverSave(cps, ckpt) ==
    Slice(Append(cps, ckpt), Max(Len(cps) + 1 - MaxToKeep, 0), Len(cps) + 1)

\* line 515
SaveDue(it, every, last) == (it % every = 0) \/ (it = last)

TrainWindows == GetBatch(<<train_x, train_y>>, num_steps)
ValWindows == GetBatch(<<val_x, val_y>>, num_steps)

\* lines 501-504
TrainFeed(w, st) ==
    [op |-> "train", inputs |-> w[1], targets |-> w[2], keep_prob |-> "0.5",
     initial_state |-> st]

\* lines 520-523
ValFeed(w, st) ==
    [op |-> "eval", inputs |-> w[1], targets |-> w[2], keep_prob |-> "1.",
     initial_state |-> st]

InitTrainer ==
    /\ pc = "cell14"
    /\ IdleGetBatch
    /\ IdleVocab /\ IdlePick /\ IdleSampler
    /\ \E n \in 0..MaxTrainLen : chars = Cyclic(n)
    /\ batch_size \in 1..MaxTrainBatch
    /\ num_steps \in 1..MaxTrainSteps
    /\ split_frac = DefaultSplitFrac
    /\ train_x = <<>> /\ train_y = <<>> /\ val_x = <<>> /\ val_y = <<>>
    /\ fetched_layout \in {"packed", "nested"}
    /\ epochs \in 1..MaxEpochs
    /\ save_every_n \in 1..MaxSaveEvery
    /\ n_batches = 0 /\ iterations = 0
    /\ e = -1 /\ b = 0 /\ iteration = 0 /\ val_b = 0 /\ val_loss = <<>>
    /\ new_state = <<>> /\ feed = [op |-> "none"] /\ params = 0 /\ checkpoints = <<>>

\* lines 474-492: split_data returns, the graph is built, the loop bounds set
TrainSetup ==
    /\ pc = "cell14"
    /\ LET r == SplitData(chars, batch_size, num_steps, split_frac)
       IN  /\ ~r.raised
           /\ train_x' = r.train_x /\ train_y' = r.train_y
           /\ val_x' = r.val_x /\ val_y' = r.val_y
           /\ n_batches' = Cols(r.train_x) \div num_steps
           /\ iterations' = (Cols(r.train_x) \div num_steps) * epochs
    /\ pc' = "for_e"
    /\ UNCHANGED <<genVars, vocabVars, chars, batch_size, num_steps, split_frac, pickVars,
                   fetched_layout, epochs, save_every_n, loopVars, modelVars,
                   sampleVars>>

\* line 474: split_data raises
TrainSetupRaises ==
    /\ pc = "cell14"
    /\ SplitData(chars, batch_size, num_steps, split_frac).raised
    /\ pc' = "ValueError"
    /\ UNCHANGED <<genVars, vocabVars, chars, batchVars, pickVars, trainVars, sampleVars>>

\* lines 493-497: the next epoch starts from the zero state
BeginEpoch ==
    /\ pc = "for_e"
    /\ e + 1 < epochs
    /\ e' = e + 1
    /\ new_state' = ZeroState
    /\ b' = 0
    /\ pc' = "for_b"
    /\ UNCHANGED <<genVars, vocabVars, chars, batchVars, pickVars, hyperVars, iteration,
                   val_b, val_loss, feed, params, checkpoints, sampleVars>>

\* line 493: range(epochs) is exhausted, the cell ends
EndTraining ==
    /\ pc = "for_e"
    /\ e + 1 >= epochs
    /\ pc' = "done"
    /\ UNCHANGED <<genVars, vocabVars, chars, batchVars, pickVars, trainVars, sampleVars>>

\* lines 498-512: one training window; the optimizer step changes the
\* parameters and new_state becomes the fetched final_state
TrainStep ==
    /\ pc = "for_b"
    /\ b < Len(TrainWindows)
    /\ ~FeedRejected(TrainFeed(TrainWindows[b + 1], new_state), batch_size, num_steps)
    /\ b' = b + 1
    /\ iteration' = e * n_batches + b + 1
    /\ feed' = TrainFeed(TrainWindows[b + 1], new_state)
    /\ new_state' = FinalState(new_state, <<"train", e * n_batches + b + 1>>,
                               fetched_layout)
    /\ params' = ParamsAfterRun(TrainFetches, params)
    /\ pc' = "if_save"
    /\ UNCHANGED <<genVars, vocabVars, chars, batchVars, pickVars, hyperVars, e,
                   val_b, val_loss, checkpoints, sampleVars>>

\* lines 498-506: sess.run raises on the feed
TrainStepRaises ==
    /\ pc = "for_b"
    /\ b < Len(TrainWindows)
    /\ FeedRejected(TrainFeed(TrainWindows[b + 1], new_state), batch_size, num_steps)
    /\ b' = b + 1
    /\ iteration' = e * n_batches + b + 1
    /\ feed' = TrainFeed(TrainWindows[b + 1], new_state)
    /\ pc' = "ValueError"
    /\ UNCHANGED <<genVars, vocabVars, chars, batchVars, pickVars, hyperVars, e,
                   val_b, val_loss, new_state, params, checkpoints, sampleVars>>

\* line 498: get_batch is exhausted, the epoch ends
EndEpoch ==
    /\ pc = "for_b"
    /\ b >= Len(TrainWindows)
    /\ pc' = "for_e"
    /\ UNCHANGED <<genVars, vocabVars, chars, batchVars, pickVars, trainVars, sampleVars>>

\* line 515, condition false
SkipValidation ==
    /\ pc = "if_save"
    /\ ~SaveDue(iteration, save_every_n, iterations)
    /\ pc' = "for_b"
    /\ UNCHANGED <<genVars, vocabVars, chars, batchVars, pickVars, trainVars, sampleVars>>

\* lines 515-518: the validation pass starts; it reuses the variable new_state
BeginValidation ==
    /\ pc = "if_save"
    /\ SaveDue(iteration, save_every_n, iterations)
    /\ val_loss' = <<>>
    /\ new_state' = ZeroState
    /\ val_b' = 0
    /\ pc' = "for_val"
    /\ UNCHANGED <<genVars, vocabVars, chars, batchVars, pickVars, hyperVars, e, b,
                   iteration, feed, params, checkpoints, sampleVars>>

\* lines 519-525: one validation window; no optimizer is fetched
ValStep ==
    /\ pc = "for_val"
    /\ val_b < Len(ValWindows)
    /\ ~FeedRejected(ValFeed(ValWindows[val_b + 1], new_state), batch_size, num_steps)
    /\ val_b' = val_b + 1
    /\ feed' = ValFeed(ValWindows[val_b + 1], new_state)
    /\ new_state' = FinalState(new_state, <<"val", val_b + 1>>, fetched_layout)
    /\ val_loss' = Append(val_loss, Cost(<<"val", val_b + 1>>, new_state, params))
    /\ params' = ParamsAfterRun(ValFetches, params)
    /\ pc' = "for_val"
    /\ UNCHANGED <<genVars, vocabVars, chars, batchVars, pickVars, hyperVars, e, b,
                   iteration, checkpoints, sampleVars>>

\* lines 519-524: sess.run raises on the feed
ValStepRaises ==
    /\ pc = "for_val"
    /\ val_b < Len(ValWindows)
    /\ FeedRejected(ValFeed(ValWindows[val_b + 1], new_state), batch_size, num_steps)
    /\ val_b' = val_b + 1
    /\ feed' = ValFeed(ValWindows[val_b + 1], new_state)
    /\ pc' = "ValueError"
    /\ UNCHANGED <<genVars, vocabVars, chars, batchVars, pickVars, hyperVars, e, b,
                   iteration, val_loss, new_state, params, checkpoints, sampleVars>>

\* lines 527-529: the validation windows are exhausted, the checkpoint is
\* saved under a name holding the iteration and the mean validation loss
SaveCheckpoint ==
    /\ pc = "for_val"
    /\ val_b >= Len(ValWindows)
    /\ checkpoints' = SaverSave(checkpoints,
                                [iteration |-> iteration, val_loss |-> val_loss,
                                 params |-> params])
    /\ pc' = "for_b"
    /\ UNCHANGED <<genVars, vocabVars, chars, batchVars, pickVars, hyperVars, loopVars,
                   new_state, feed, params, sampleVars>>

NextTrainer ==
    \/ TrainSetup \/ TrainSetupRaises
    \/ BeginEpoch \/ EndTraining
    \/ TrainStep \/ TrainStepRaises \/ EndEpoch
    \/ SkipValidation \/ BeginValidation
    \/ ValStep \/ ValStepRaises \/ SaveCheckpoint

SpecTrainer == InitTrainer /\ [][NextTrainer]_vars

\* C1: the state fed to the training step of window b of an epoch is the zero
\* state for b = 1 and otherwise the state the training step of window b-1
\* returned, that is, the state that has consumed exactly the training windows
\* 1..b-1 of this epoch; no state that came out of a validation step is fed
\* to a training step.
C1_TrainStateCarried ==
    ((pc = "if_save" \/ pc = "ValueError") /\ feed.op = "train") =>
        feed.initial_state.seen = [k \in 1..(b - 1) |-> <<"train", e * n_batches + k>>]

\* C5: when the training cell has ended, every iteration i of 1..iterations
\* with i % save_every_n = 0 or i = iterations has exactly one checkpoint, no
\* other iteration has one, and every checkpoint was saved after a validation
\* pass that took all validation windows in order from the zero state.
C5_ValidationSchedule ==
    ((pc = "done" \/ pc = "ValueError") /\ iterations >= 1) =>
        /\ \A it \in 1..iterations :
              Cardinality({k \in 1..Len(checkpoints) : checkpoints[k].iteration = it})
                  = IF (it % save_every_n = 0) \/ (it = iterations) THEN 1 ELSE 0
        /\ \A k \in 1..Len(checkpoints) :
              /\ Len(checkpoints[k].val_loss) = Cols(val_x) \div num_steps
              /\ \A w \in 1..Len(checkpoints[k].val_loss) :
                    /\ checkpoints[k].val_loss[w].window = <<"val", w>>
                    /\ checkpoints[k].val_loss[w].prior = [v \in 1..(w - 1) |-> <<"val", v>>]

-----------------------------------------------------------------------------
(* sample *)

DefaultTopN == 5

\* the texts whose vocabulary the sampler runs under
SamplerTexts == {<<"F", "a", "r">>, <<"F", "a">>}

\* the prime argument: the default "The ", the notebook's "Far", and others
PrimeArgs == {<<"T", "h", "e", " ">>, <<"F", "a", "r">>, <<"r", "a">>, <<"a">>}

\* what a fetch of model.preds can return over n classes: the network's output
\* is not modelled, only which ids it gives a non-zero probability
InferPreds(n) == {v \in [1..n -> 0..1] : \E k \in 1..n : v[k] > 0}

\* lines 599-601 and 610-612
\* (InferFeedFromZero is the faulty variant that does not carry the state)
InferFeedFromZero(id, st) ==
    [op |-> "infer", inputs |-> <<<<id>>>>, keep_prob |-> "1.",
     initial_state |-> ZeroState]
InferFeed(id, st) ==
    [op |-> "infer", inputs |-> <<<<id>>>>, keep_prob |-> "1.",
     initial_state |-> st]

InitSampler ==
    /\ pc = "sample"
    /\ IdleGetBatch
    /\ \E t \in SamplerTexts : \E order \in Orders(Range(t)) :
          /\ text = t
          /\ vocab = order
          /\ vocab_to_int = VocabToInt(order)
          /\ int_to_vocab = IntToVocab(order)
          /\ chars = Encode(t, VocabToInt(order))
    /\ IdleBatcher /\ IdlePick
    /\ fetched_layout \in {"packed", "nested"}
    /\ epochs = 0 /\ save_every_n = 0 /\ n_batches = 0 /\ iterations = 0
    /\ e = 0 /\ b = 0 /\ iteration = 0 /\ val_b = 0 /\ val_loss = <<>>
    /\ new_state = <<>> /\ feed = [op |-> "none"] /\ params = 0 /\ checkpoints = <<>>
    /\ prime_arg \in PrimeArgs
    /\ n_samples \in 0..MaxSamples
    /\ prime = prime_arg /\ samples = <<>> /\ x = -1 /\ i = 0 /\ prime_k = 0

\* lines 589-595: prime is overwritten, the sampling graph (batch_size 1,
\* num_steps 1) is built and restored, the state starts at zero
SampleEnter ==
    /\ pc = "sample"
    /\ prime' = <<"F", "a", "r">>
    /\ samples' = <<"F", "a", "r">>
    /\ new_state' = ZeroState
    /\ prime_k' = 0
    /\ pc' = "for_prime"
    /\ UNCHANGED <<genVars, vocabVars, chars, batchVars, pickVars, hyperVars, loopVars,
                   feed, params, checkpoints, prime_arg, n_samples, x, i>>

\* lines 596-603: one character of prime goes through the network
PrimeStep ==
    /\ pc = "for_prime"
    /\ prime_k < Len(prime)
    /\ prime[prime_k + 1] \in DOMAIN vocab_to_int
    /\ ~FeedRejected(InferFeed(vocab_to_int[prime[prime_k + 1]], new_state), 1, 1)
    /\ prime_k' = prime_k + 1
    /\ x' = vocab_to_int[prime[prime_k + 1]]
    /\ feed' = InferFeed(vocab_to_int[prime[prime_k + 1]], new_state)
    /\ preds' \in InferPreds(Len(vocab))
    /\ new_state' = FinalState(new_state, <<"infer", vocab_to_int[prime[prime_k + 1]]>>,
                               fetched_layout)
    /\ params' = ParamsAfterRun(InferFetches, params)
    /\ UNCHANGED <<genVars, pc, vocabVars, chars, batchVars, top_n, p, c, hyperVars, loopVars,
                   checkpoints, prime_arg, n_samples, prime, samples, i>>

\* line 598: the character is not in the vocabulary
PrimeStepKeyError ==
    /\ pc = "for_prime"
    /\ prime_k < Len(prime)
    /\ prime[prime_k + 1] \notin DOMAIN vocab_to_int
    /\ prime_k' = prime_k + 1
    /\ pc' = "KeyError"
    /\ UNCHANGED <<genVars, vocabVars, chars, batchVars, pickVars, trainVars, prime_arg,
                   n_samples, prime, samples, x, i>>

\* lines 599-603: sess.run raises on the feed
PrimeStepRaises ==
    /\ pc = "for_prime"
    /\ prime_k < Len(prime)
    /\ prime[prime_k + 1] \in DOMAIN vocab_to_int
    /\ FeedRejected(InferFeed(vocab_to_int[prime[prime_k + 1]], new_state), 1, 1)
    /\ prime_k' = prime_k + 1
    /\ x' = vocab_to_int[prime[prime_k + 1]]
    /\ feed' = InferFeed(vocab_to_int[prime[prime_k + 1]], new_state)
    /\ pc' = "ValueError"
    /\ UNCHANGED <<genVars, vocabVars, chars, batchVars, pickVars, hyperVars, loopVars,
                   new_state, params, checkpoints, prime_arg, n_samples, prime,
                   samples, i>>

\* lines 605-606: the first character is sampled before the loop
FirstPick ==
    /\ pc = "for_prime"
    /\ prime_k >= Len(prime)
    /\ \E r \in PickResults(preds, DefaultTopN) :
          /\ p' = r.p /\ c' = r.c
          /\ samples' = Append(samples, int_to_vocab[r.c])
    /\ i' = 0
    /\ pc' = "for_i"
    /\ UNCHANGED <<genVars, vocabVars, chars, batchVars, preds, top_n, trainVars, prime_arg,
                   n_samples, prime, x, prime_k>>

\* lines 608-617: one pass of the loop feeds the last sampled id and samples
\* the next (a feed that sess.run rejects has already ended the run in the
\* priming loop, which feeds a fetched state from its second character on)
SampleStep ==
    /\ pc = "for_i"
    /\ i < n_samples
    /\ ~FeedRejected(InferFeed(c, new_state), 1, 1)
    /\ x' = c
    /\ feed' = InferFeed(c, new_state)
    /\ new_state' = FinalState(new_state, <<"infer", c>>, fetched_layout)
    /\ \E v \in InferPreds(Len(vocab)) : \E r \in PickResults(v, DefaultTopN) :
          /\ preds' = v
          /\ p' = r.p /\ c' = r.c
          /\ samples' = Append(samples, int_to_vocab[r.c])
    /\ params' = ParamsAfterRun(InferFetches, params)
    /\ i' = i + 1
    /\ UNCHANGED <<genVars, pc, vocabVars, chars, batchVars, top_n, hyperVars, loopVars,
                   checkpoints, prime_arg, n_samples, prime, prime_k>>

\* line 619: the loop is over, ''.join(samples) is returned
SampleReturn ==
    /\ pc = "for_i"
    /\ i >= n_samples
    /\ pc' = "returned"
    /\ UNCHANGED <<genVars, vocabVars, chars, batchVars, pickVars, trainVars, sampleVars>>

NextSampler ==
    \/ SampleEnter
    \/ PrimeStep \/ PrimeStepKeyError \/ PrimeStepRaises
    \/ FirstPick
    \/ SampleStep
    \/ SampleReturn

SpecSampler == InitSampler /\ [][NextSampler]_vars

\* C6: a call of sample with n_samples = n ends by returning, having taken n
\* sampling steps (each appends one character after the prime), a string of
\* len(prime_text) + n characters, prime_text being the caller's argument.
C6_SampleCount ==
    (pc = "returned" \/ pc = "ValueError" \/ pc = "KeyError") =>
        /\ pc = "returned"
        /\ Len(samples) - Len(prime) = n_samples
        /\ Len(samples) = Len(prime_arg) + n_samples

\* C7: the characters fed to the network while priming are the characters of
\* the caller's prime_text, in order, and the returned string begins with the
\* caller's prime_text.
C7_PrimeIsCallers ==
    /\ (pc = "for_prime" /\ prime_k >= 1) =>
          /\ prime_k <= Len(prime_arg)
          /\ \A k \in 1..prime_k : prime_arg[k] \in DOMAIN vocab_to_int
          /\ new_state.seen = [k \in 1..prime_k |-> <<"infer", vocab_to_int[prime_arg[k]]>>]
    /\ pc = "returned" =>
          /\ Len(samples) >= Len(prime_arg)
          /\ SubSeq(samples, 1, Len(prime_arg)) = prime_arg

-----------------------------------------------------------------------------
(* The training cell and the sampler, the two places where the network runs *)

InitRuns == InitTrainer \/ InitSampler

NextRuns == NextTrainer \/ NextSampler

SpecRuns == InitRuns /\ [][NextRuns]_vars

\* C11: the model parameters change only in a training step (a sess.run of
\* the training loop that fetches the optimizer); every validation step and
\* every priming or sampling step of the sampler leaves them unchanged.
C11_ParamsChangeOnlyInTrain ==
    [][/\ (params' # params) => (pc = "for_b" /\ feed'.op = "train")
       /\ (feed' # feed /\ feed'.op \in {"eval", "infer"}) => (params' = params)]_vars

\* a validation step has run after the parameters were trained
C11_Witness ==
    /\ pc = "for_val" /\ val_b >= 1 /\ feed.op = "eval"
    /\ params >= 1

\* C12: when the corpus is too short for one full window
\* (len(chars) < batch_size * num_steps, so n_batches = 0) the training cell
\* ends in an error before any training step, validation pass or checkpoint;
\* it never runs to its end with zero iterations.
C12_ShortCorpusIsFatal ==
    (Len(chars) < batch_size * num_steps) =>
        /\ pc # "done"
        /\ params = 0 /\ feed.op = "none" /\ checkpoints = <<>>

\* C13: the hidden state is validated before each training, validation and
\* sampling run of the network, so a state that does not have the structure
\* of model.initial_state is stopped at the call boundary: no feed handed to
\* sess.run carries such a state.
C13_StateValidatedBeforeRun ==
    (feed.op \in {"train", "eval", "infer"}) =>
        feed.initial_state.layout = ZeroState.layout

\* C14: on a corpus whose length is exactly n_batches * batch_size * num_steps
\* (n_batches >= 1), where the shifted target stream would need one character
\* past the end, split_data does not raise and returns targets of the same
\* shape as the inputs.
C14_ShiftPastEndHandled ==
    (/\ pc # "cell6"
     /\ Len(chars) >= 1
     /\ Len(chars) % (batch_size * num_steps) = 0) =>
        /\ pc = "split"
        /\ Shape(FullY) = Shape(FullX)
        /\ Shape(train_y) = Shape(train_x)
        /\ Shape(val_y) = Shape(val_x)

\* the columns of both arrays that the windows yielded so far were cut from:
\* window k (counting from 1) holds, for each array and each row, columns
\* (k-1)*num_steps + 1 .. k*num_steps, and has batch_size rows of num_steps
WindowsInOrder(ws) ==
    \A k \in 1..Len(ws) : \A a \in 1..Len(arrs) :
        /\ Shape(ws[k][a]) = <<Len(arrs[a]), num_steps>>
        /\ \A r \in 1..Len(arrs[a]) : \A j \in 1..num_steps :
              ws[k][a][r][j] = arrs[a][r][(k - 1) * num_steps + j]

\* each of the columns 1..upto lies in exactly one of the windows ws
CoveredOnce(ws, upto) ==
    \A q \in 1..upto :
        Cardinality({kj \in (1..Len(ws)) \X (1..num_steps) :
                        (kj[1] - 1) * num_steps + kj[2] = q}) = 1

\* C15 (as stated): on two arrays of C columns each and any num_steps >= 1,
\* one call of get_batch yields windows of shape (batch_size, num_steps), the
\* k-th being columns [k*num_steps, (k+1)*num_steps) of both arrays, which
\* together cover all C columns exactly once; a second call yields the same.
C15_WindowsCoverAllColumns ==
    (Cols(arrs[2]) = Cols(arrs[1]) /\ arrs # <<>>) =>
        /\ WindowsInOrder(yielded)
        /\ \A q \in 1..Len(runs) :
              /\ WindowsInOrder(runs[q])
              /\ CoveredOnce(runs[q], Cols(arrs[1]))
              /\ runs[q] = runs[1]

\* C15 (amended): the same, but the windows cover the first
\* floor(C / num_steps) * num_steps columns exactly once and no others; the
\* trailing C mod num_steps columns are in no window, so all C columns are
\* covered exactly when num_steps divides C.
C15_WindowsCoverFullWindows ==
    (Cols(arrs[2]) = Cols(arrs[1]) /\ arrs # <<>>) =>
        /\ WindowsInOrder(yielded)
        /\ \A q \in 1..Len(runs) :
              /\ WindowsInOrder(runs[q])
              /\ Len(runs[q]) = Cols(arrs[1]) \div num_steps
              /\ CoveredOnce(runs[q], (Cols(arrs[1]) \div num_steps) * num_steps)
              /\ runs[q] = runs[1]

\* two calls have ended on arrays of 5 columns with num_steps 2: two windows
\* each, the fifth column in none
C15_Witness ==
    /\ pc = "get_batch" /\ Len(runs) = 2
    /\ Cols(arrs[1]) = 5 /\ Cols(arrs[2]) = 5 /\ Len(arrs[1]) = 2
    /\ num_steps = 2
    /\ Len(runs[2]) = 2

\* C16: when split_data has returned, with L = n_batches * num_steps, row r of
\* the inputs (training columns followed by validation columns) is the corpus
\* span chars[r*L : (r+1)*L] (r from 0); the rows are disjoint, cover
\* chars[0 : batch_size*L] in order, and only the last
\* len(chars) mod (batch_size*num_steps) characters are in no row; within a
\* row the first character of a window is the corpus character right after
\* the last character of the window before it.
C16_RowsAreContiguousSpans ==
    pc = "split" =>
        LET n == Len(chars) \div (batch_size * num_steps)
            L == n * num_steps
        IN  /\ Len(FullX) = batch_size
            /\ \A r \in 1..batch_size :
                  /\ Len(FullX[r]) = L
                  /\ FullX[r] = SubSeq(chars, (r - 1) * L + 1, r * L)
                  /\ \A k \in 1..(n - 1) :
                        FullX[r][k * num_steps + 1] = chars[(r - 1) * L + k * num_steps + 1]
            /\ Len(chars) - batch_size * L = Len(chars) % (batch_size * num_steps)
            /\ batch_size * L <= Len(chars)

\* three rows of three one-character windows from a corpus of eleven
\* different characters, the last two of which are dropped
C16_Witness ==
    /\ pc = "split"
    /\ chars = Distinct(11)
    /\ batch_size = 3 /\ num_steps = 1
    /\ Len(FullX) = 3 /\ Cols(FullX) = 3

\* C17: in a run of sample the hidden state starts at the zero state; every
\* run of the network is fed the state that new_state holds, which only a run
\* of the network changes, so each run receives the state the run before it
\* returned (the first one the zero state); in the sampling loop the input is
\* the id pick_top_n returned last; preds changes only in a run of the
\* network, and every id appended to samples has non-zero probability in it.
C17_SamplerCarriesState ==
    [][/\ (pc = "sample") => (new_state' = ZeroState)
       /\ (feed' # feed) =>
              /\ feed'.op = "infer"
              /\ feed'.initial_state = new_state
              /\ (pc = "for_i") => (feed'.inputs = <<<<c>>>>)
       /\ (new_state' # new_state /\ pc # "sample") =>
              /\ feed' # feed
              /\ new_state'.seen = Append(feed'.initial_state.seen,
                                          <<"infer", feed'.inputs[1][1]>>)
       /\ (preds' # preds) => (feed' # feed)
       /\ (samples' # samples /\ pc # "sample") =>
              /\ c' + 1 \in DOMAIN preds'
              /\ preds'[c' + 1] > 0
              /\ samples' = Append(samples, int_to_vocab[c'])]_vars

\* the sampling loop has fed two sampled ids after the three priming characters
C17_Witness ==
    /\ pc = "for_i" /\ i = 2
    /\ feed.op = "infer"
    /\ Len(feed.initial_state.seen) = 4
    /\ Len(new_state.seen) = 5
    /\ Len(samples) = 6

\* C18: pick_top_n never returns a sampled id when top_n is outside
\* 1..vocab_size (top_n = 0 or top_n > vocab_size): such a call is rejected
\* before anything is drawn.
C18_TopNOutOfRangeRejected ==
    (top_n < 1 \/ top_n > Len(preds)) => (pc # "picked" /\ c = -1)

\* C19: a run of the training cell with n_batches >= 1 training windows and
\* epochs >= 1 ends normally after exactly epochs * n_batches training steps,
\* the k-th of them numbered iteration k; and the state a training or
\* validation step returns always has the structure of model.initial_state,
\* so no later step is refused for the structure of its state.
C19_TrainingTerminates ==
    /\ (pc \in {"for_b", "if_save", "for_val"}) =>
           new_state.layout = ZeroState.layout
    /\ (pc = "if_save") => (iteration = params /\ iteration \in 1..iterations)
    /\ (pc \in {"done", "ValueError"} /\ n_batches >= 1) =>
           /\ pc = "done"
           /\ params = epochs * n_batches
           /\ iteration = epochs * n_batches

====
